---- MODULE Spec2Model ----
(***************************************************************************)
(* Model of esrally/track/loader.py: the asset stager (prepare_track) and  *)
(* the track specification reader (TrackSpecificationReader), the track    *)
(* repository (TrackRepository) and the plugin loader (load_track_plugins).*)
(*                                                                         *)
(* Python's Optional values are modelled as sequences of length <= 1:      *)
(* << >> is None (or "no such file"), <<v>> is the value v.                *)
(***************************************************************************)
EXTENDS Integers, Sequences, FiniteSets, TLC

VARIABLES
    track,      \* prepare_track: the types of track.indices, in loop order
    offline,    \* cfg.opts("system", "offline.mode")
    fs,         \* the local filesystem: path -> << >> (no file) or <<size>>
    pc,         \* prepare_track: position in the loop body
    idx,        \* prepare_track: position of the current type in the track
    err,        \* the exception that ended the current run, or NoError
    trace,      \* the steps the current run has executed, in order
    run,        \* number of the current prepare_track run
    startFs,    \* the filesystem as it was when the current run began
    prev        \* the previous run: did it return normally, did it download or decompress

stagerVars == <<track, offline, fs, pc, idx, err, trace, run, startFs, prev>>

VARIABLES
    pstate,     \* TrackSpecificationReader: position in _create_challenges
    ops,        \* the operations table: name -> track.Operation
    n_ops,      \* number of entries of the "operations" list that was read
    challenges, \* the challenges built so far
    challenge,  \* the challenge being read: its name and description
    schedule,   \* the schedule of the challenge being read
    parallel,   \* parse_parallel: block defaults, clients, tasks so far; or None
    task_spec,  \* the task just handed to parse_task, when that was the last step; or None
    perr,       \* the exception that ended parsing, or NoError
    result,     \* what the reader returned: None or <<track.Track>>
    steps,      \* TrackFileReader.read: the steps executed so far, in order
    indices,    \* the indices built by _create_index
    op_names,   \* the "name" of each entry of the "operations" list that was read
    input_shape,\* the schedules read so far: per challenge, per entry, the tasks declared
    missing,    \* the mandatory lookup that found nothing: its path and the named
                \* challenge or operation around it; or None
    warnings    \* the warnings of _create_index, in order

parserVars == <<pstate, ops, n_ops, challenges, challenge, schedule, parallel,
                task_spec, perr, result, steps, indices, op_names, input_shape,
                missing, warnings>>

VARIABLES
    remote,              \* TrackRepository: self.remote, a non-blank URL is configured
    fetch,               \* TrackRepository: the fetch argument of the constructor
    working_copy,        \* git.is_working_copy(self.tracks_dir)
    remote_branches,     \* what git.branches(remote=True) lists
    local_branches,      \* what git.branches(remote=False) lists
    distribution_version,\* the version a revision is resolved for
    current,             \* the branch the working copy is on; or None
    git_ops,             \* the git operations performed so far, in order
    messages,            \* what was logged or printed as a warning, in order
    rpc,                 \* TrackRepository: "new", "ready", "updated" or "failed"
    rerr,                \* the exception that left the constructor or _update, or NoError
    updates,             \* number of calls of _update so far
    resolved             \* what track_file returned and the branch it is read from; or None

repoVars == <<remote, fetch, working_copy, remote_branches, local_branches,
              distribution_version, current, git_ops, messages, rpc, rerr,
              updates, resolved>>

VARIABLES
    plugin_exists,    \* os.path.exists(track_plugin_file)
    ppc,              \* load_track_plugins: "idle", "called", "resolved", "done" or "failed"
    track_plugin_file,\* what repo.plugin_file returned; or None
    registered,       \* number of calls of the plugin's register()
    runner_registry,  \* the names handed to register_runner so far, in order
    plugin_err,       \* the exception that left the plugin reader, or NoError
    plugin_log        \* what load_track_plugins logged, in order

pluginVars == <<plugin_exists, ppc, track_plugin_file, registered, runner_registry,
                plugin_err, plugin_log>>

vars == <<stagerVars, parserVars, repoVars, pluginVars>>

-----------------------------------------------------------------------------
(* Bounds *)

MaxSize == 2
MaxTypes == 2
MaxRuns == 2
MaxOps == 2
MaxChallenges == 1
MaxSchedule == 2
MaxTasks == 1
MaxIterations == 1
MaxVersion == 2
MaxUpdates == 2
MaxIndices == 1
MaxIndexTypes == 1
MaxRegistrations == 2

None == << >>
Some(v) == <<v>>

Sizes == 1..MaxSize
OptSizes == {None} \cup {Some(s) : s \in Sizes}

-----------------------------------------------------------------------------
(* Paths. A path is a record [base, ext]; io.splitext cuts the extension. *)

ArchiveNames == {[base |-> "a", ext |-> ".bz2"], [base |-> "a", ext |-> ".gz"],
                 [base |-> "b", ext |-> ".bz2"]}
splitext(path) == <<[base |-> path.base, ext |-> ""], path.ext>>
Paths == ArchiveNames \cup {splitext(p)[1] : p \in ArchiveNames}

isfile(f, path) == f[path] # None
getsize(f, path) == f[path][1]

-----------------------------------------------------------------------------
(* track.Type as prepare_track reads it. *)

Types ==
    [document_archive : {None}, compressed_size_in_bytes : {None},
     uncompressed_size_in_bytes : {None}]
    \cup
    [document_archive : {Some(p) : p \in ArchiveNames},
     compressed_size_in_bytes : OptSizes,
     uncompressed_size_in_bytes : OptSizes]

Tracks == UNION {[1..n -> Types] : n \in 0..MaxTypes}

ReferencedPaths(t) ==
    UNION {{t[i].document_archive[1], splitext(t[i].document_archive[1])[1]} :
           i \in {j \in 1..Len(t) : t[j].document_archive # None}}

-----------------------------------------------------------------------------
(* Exceptions *)

NoError == [type |-> "none", msg |-> "", cites |-> << >>]
Error(type, msg, cites) == [type |-> type, msg |-> msg, cites |-> cites]

Step(name, i) == [step |-> name, idx |-> i]

-----------------------------------------------------------------------------
(* External collaborators of prepare_track (esrally.utils.net / io).       *)

(* What one call of net.download can do: return normally after writing the *)
(* archive with whatever size the server delivered, or raise URLError and  *)
(* leave the local path untouched (written = None) or partially written.   *)
NetOutcomes ==
    {o \in [raised : BOOLEAN, written : OptSizes] : ~o.raised => o.written # None}

net_download(f, local_path, net) ==
    IF net.written = None THEN f ELSE [f EXCEPT ![local_path] = net.written]

(* io.decompress writes the extension-stripped sibling of the archive with *)
(* whatever size the archive's content has.                                *)
io_decompress(f, data_set_path, extracted) ==
    [f EXCEPT ![splitext(data_set_path)[1]] = Some(extracted)]

-----------------------------------------------------------------------------
(* prepare_track.download: one call, given the outcome `net` that          *)
(* net.download would have. Returns the filesystem, the steps executed and *)
(* the exception raised (NoError when the call returns).                   *)

(* lines 119-128: what leaves the try block around net.download. The     *)
(* except clause logs a URLError and goes on.                            *)
except_URLError_reraise(net) ==
    IF net.raised THEN Error("URLError", "", << >>) ELSE NoError

except_URLError(net) == NoError

download(offl, f, local_path, size_in_bytes, net, i) ==
    LET pre == <<Step("download.precheck", i)>>
    IN
    IF isfile(f, local_path) /\ Some(getsize(f, local_path)) = size_in_bytes
    THEN [fs |-> f, steps |-> pre, err |-> NoError]
    ELSE IF ~offl /\ size_in_bytes = None
    THEN \* round(convert.bytes_to_mb(None)): a TypeError, which the except
         \* clause for URLError does not catch; net.download is not reached
         [fs |-> f, steps |-> pre,
          err |-> Error("TypeError", "bytes_to_mb", << >>)]
    ELSE
    LET f1 == IF offl THEN f ELSE net_download(f, local_path, net)
        s1 == IF offl THEN pre
              ELSE pre \o <<Step("net.download", i)>>
                       \o (IF net.raised THEN <<Step("URLError", i)>> ELSE << >>)
    IN
    IF ~offl /\ except_URLError(net) # NoError
    THEN [fs |-> f1, steps |-> s1, err |-> except_URLError(net)]
    ELSE
    IF ~isfile(f1, local_path)
    THEN [fs |-> f1, steps |-> s1 \o <<Step("download.exists", i)>>,
          err |-> IF offl
                  THEN Error("SystemSetupError", "disable offline mode", << >>)
                  ELSE Error("SystemSetupError", "verify url and connection", << >>)]
    ELSE
    LET actual_size == getsize(f1, local_path)
        s2 == s1 \o <<Step("download.exists", i), Step("download.size", i)>>
    IN
    IF Some(actual_size) # size_in_bytes
    THEN [fs |-> f1, steps |-> s2,
          err |-> IF size_in_bytes = None
                  THEN \* "[%d] bytes are expected" % None
                       Error("TypeError", "%d format", << >>)
                  ELSE Error("DataError", "Downloaded",
                             <<actual_size, size_in_bytes[1]>>)]
    ELSE [fs |-> f1, steps |-> s2, err |-> NoError]

(* prepare_track.decompress: one call, given the size `extracted` that     *)
(* io.decompress would produce.                                            *)
(* line 151: is the document file missing or of the wrong size?          *)
needs_decompress_always(f, basename, expected_size_in_bytes) == TRUE

needs_decompress(f, basename, expected_size_in_bytes) ==
    ~isfile(f, basename) \/ Some(getsize(f, basename)) # expected_size_in_bytes

decompress_unverified(f, data_set_path, expected_size_in_bytes, extracted, i) ==
    LET basename == splitext(data_set_path)[1]
        pre == <<Step("decompress.precheck", i)>>
    IN
    IF needs_decompress(f, basename, expected_size_in_bytes)
    THEN IF expected_size_in_bytes = None
         THEN [fs |-> f, steps |-> pre,
               err |-> Error("TypeError", "bytes_to_gb", << >>)]
         ELSE [fs |-> io_decompress(f, data_set_path, extracted),
               steps |-> pre \o <<Step("io.decompress", i), Step("decompress.size", i)>>,
               err |-> NoError]
    ELSE [fs |-> f, steps |-> pre, err |-> NoError]

(* lines 147-161 *)
decompress(f, data_set_path, expected_size_in_bytes, extracted, i) ==
    LET basename == splitext(data_set_path)[1]
        pre == <<Step("decompress.precheck", i)>>
    IN
    IF needs_decompress(f, basename, expected_size_in_bytes)
    THEN IF expected_size_in_bytes = None
         THEN \* "%.2f GB" % convert.bytes_to_gb(None): TypeError before
              \* io.decompress is called
              [fs |-> f, steps |-> pre,
               err |-> Error("TypeError", "bytes_to_gb", << >>)]
         ELSE
         LET f1 == io_decompress(f, data_set_path, extracted)
             extracted_bytes == getsize(f1, basename)
             s1 == pre \o <<Step("io.decompress", i), Step("decompress.size", i)>>
         IN
         IF Some(extracted_bytes) # expected_size_in_bytes
         THEN [fs |-> f1, steps |-> s1,
               err |-> Error("DataError", "Extracted",
                             <<extracted_bytes, expected_size_in_bytes[1]>>)]
         ELSE [fs |-> f1, steps |-> s1, err |-> NoError]
    ELSE [fs |-> f, steps |-> pre, err |-> NoError]

-----------------------------------------------------------------------------
(* prepare_track: the loop over track.indices / index.types.               *)

Correct(f, t) ==
    t.document_archive # None =>
        /\ f[t.document_archive[1]] # None
        /\ f[t.document_archive[1]] = t.compressed_size_in_bytes
        /\ f[splitext(t.document_archive[1])[1]] # None
        /\ f[splitext(t.document_archive[1])[1]] = t.uncompressed_size_in_bytes

AllCorrect(f, tr) == \A i \in 1..Len(tr) : Correct(f, tr[i])

NoWork(tr) ==
    \A k \in 1..Len(tr) : tr[k].step \notin {"net.download", "io.decompress"}

(* the repository is not in use *)
RepoIdle ==
    /\ remote = FALSE
    /\ fetch = FALSE
    /\ working_copy = FALSE
    /\ remote_branches = {}
    /\ local_branches = {}
    /\ distribution_version = 1
    /\ current = None
    /\ git_ops = << >>
    /\ messages = << >>
    /\ rpc = "idle"
    /\ rerr = NoError
    /\ updates = 0
    /\ resolved = None

(* the plugin loader is not in use *)
PluginIdle ==
    /\ plugin_exists = FALSE
    /\ ppc = "idle"
    /\ track_plugin_file = None
    /\ registered = 0
    /\ runner_registry = << >>
    /\ plugin_err = NoError
    /\ plugin_log = << >>

(* the reader is not in use *)
ParserIdle ==
    /\ pstate = "idle"
    /\ ops = << >>
    /\ n_ops = 0
    /\ challenges = << >>
    /\ challenge = None
    /\ schedule = << >>
    /\ parallel = None
    /\ task_spec = None
    /\ perr = NoError
    /\ result = None
    /\ steps = << >>
    /\ indices = << >>
    /\ op_names = << >>
    /\ input_shape = << >>
    /\ missing = None
    /\ warnings = << >>

StagerInit ==
    /\ track \in Tracks
    /\ offline \in BOOLEAN
    /\ fs \in [Paths -> OptSizes]
    /\ \A p \in Paths \ ReferencedPaths(track) : fs[p] = None
    /\ pc = "loop"
    /\ idx = 1
    /\ err = NoError
    /\ trace = << >>
    /\ run = 1
    /\ startFs = fs
    /\ prev = [ok |-> FALSE, worked |-> FALSE]
    /\ ParserIdle
    /\ RepoIdle
    /\ PluginIdle

SkipType_rebuild ==
    /\ pc = "loop"
    /\ idx <= Len(track)
    /\ track[idx].document_archive = None
    /\ idx' = idx + 1
    /\ trace' = Append(trace, Step("offset_table", idx))
    /\ UNCHANGED <<track, offline, fs, pc, err, run, startFs, prev>>
    /\ UNCHANGED parserVars
    /\ UNCHANGED repoVars
    /\ UNCHANGED pluginVars

(* line 165, type.document_archive is None: nothing to stage *)
SkipType ==
    /\ pc = "loop"
    /\ idx <= Len(track)
    /\ track[idx].document_archive = None
    /\ idx' = idx + 1
    /\ UNCHANGED <<track, offline, fs, pc, err, trace, run, startFs, prev>>
    /\ UNCHANGED parserVars
    /\ UNCHANGED repoVars
    /\ UNCHANGED pluginVars

Download_continue ==
    /\ pc = "loop"
    /\ idx <= Len(track)
    /\ track[idx].document_archive # None
    /\ \E net \in NetOutcomes :
         LET r == download(offline, fs, track[idx].document_archive[1],
                           track[idx].compressed_size_in_bytes, net, idx)
         IN /\ fs' = r.fs
            /\ trace' = trace \o r.steps
            /\ err' = r.err
            /\ pc' = "decompress"
    /\ UNCHANGED <<track, offline, idx, run, startFs, prev>>
    /\ UNCHANGED parserVars
    /\ UNCHANGED repoVars
    /\ UNCHANGED pluginVars

(* lines 166-167 *)
Download ==
    /\ pc = "loop"
    /\ idx <= Len(track)
    /\ track[idx].document_archive # None
    /\ \E net \in NetOutcomes :
         LET r == download(offline, fs, track[idx].document_archive[1],
                           track[idx].compressed_size_in_bytes, net, idx)
         IN /\ fs' = r.fs
            /\ trace' = trace \o r.steps
            /\ err' = r.err
            /\ pc' = IF r.err = NoError THEN "decompress" ELSE "failed"
    /\ UNCHANGED <<track, offline, idx, run, startFs, prev>>
    /\ UNCHANGED parserVars
    /\ UNCHANGED repoVars
    /\ UNCHANGED pluginVars

(* line 168 *)
Decompress ==
    /\ pc = "decompress"
    /\ \E extracted \in Sizes :
         LET r == decompress(fs, track[idx].document_archive[1],
                             track[idx].uncompressed_size_in_bytes, extracted, idx)
         IN /\ fs' = r.fs
            /\ trace' = trace \o r.steps
            /\ err' = r.err
            /\ pc' = IF r.err = NoError THEN "offsets" ELSE "failed"
    /\ UNCHANGED <<track, offline, idx, run, startFs, prev>>
    /\ UNCHANGED parserVars
    /\ UNCHANGED repoVars
    /\ UNCHANGED pluginVars

PrepareFileOffsetTable_ifDecompressed ==
    /\ pc = "offsets"
    /\ trace' = IF \E k \in 1..Len(trace) : trace[k] = Step("io.decompress", idx)
                THEN Append(trace, Step("offset_table", idx))
                ELSE trace
    /\ idx' = idx + 1
    /\ pc' = "loop"
    /\ UNCHANGED <<track, offline, fs, err, run, startFs, prev>>
    /\ UNCHANGED parserVars
    /\ UNCHANGED repoVars
    /\ UNCHANGED pluginVars

(* line 170 *)
PrepareFileOffsetTable ==
    /\ pc = "offsets"
    /\ trace' = Append(trace, Step("offset_table", idx))
    /\ idx' = idx + 1
    /\ pc' = "loop"
    /\ UNCHANGED <<track, offline, fs, err, run, startFs, prev>>
    /\ UNCHANGED parserVars
    /\ UNCHANGED repoVars
    /\ UNCHANGED pluginVars

(* the loop is exhausted: prepare_track returns *)
Return ==
    /\ pc = "loop"
    /\ idx > Len(track)
    /\ pc' = "done"
    /\ UNCHANGED <<track, offline, fs, idx, err, trace, run, startFs, prev>>
    /\ UNCHANGED parserVars
    /\ UNCHANGED repoVars
    /\ UNCHANGED pluginVars

(* prepare_track is called again with the same track and configuration *)
Rerun ==
    /\ pc \in {"done", "failed"}
    /\ run < MaxRuns
    /\ run' = run + 1
    /\ prev' = [ok |-> (pc = "done"), worked |-> ~NoWork(trace)]
    /\ startFs' = fs
    /\ pc' = "loop"
    /\ idx' = 1
    /\ err' = NoError
    /\ trace' = << >>
    /\ UNCHANGED <<track, offline, fs>>
    /\ UNCHANGED parserVars
    /\ UNCHANGED repoVars
    /\ UNCHANGED pluginVars

Next ==
    \/ SkipType
    \/ Download
    \/ Decompress
    \/ PrepareFileOffsetTable
    \/ Return
    \/ Rerun

Spec == StagerInit /\ [][Next]_vars

-----------------------------------------------------------------------------
(* Vocabulary of the stager claims *)

Has(step, i) == \E k \in 1..Len(trace) : trace[k] = Step(step, i)
Count(step, i) == Cardinality({k \in 1..Len(trace) : trace[k] = Step(step, i)})

HasArchive(i) == track[i].document_archive # None
Archive(i) == track[i].document_archive[1]
DocumentFile(i) == splitext(Archive(i))[1]
ArchiveTypes == {i \in 1..Len(track) : HasArchive(i)}

(* the current type has been through download(): the run is in, or failed  *)
(* in, its loop body                                                       *)
InBody == pc \in {"decompress", "offsets", "failed"}

(* no two types share a decompressed document file (and so no archive)     *)
DistinctFiles ==
    \A i, j \in ArchiveTypes : i # j => DocumentFile(i) # DocumentFile(j)

(* both sizes of the type are declared in the track *)
Declared(i) ==
    /\ track[i].compressed_size_in_bytes # None
    /\ track[i].uncompressed_size_in_bytes # None

C2_DownloadIff ==
    [][(pc = "loop" /\ idx <= Len(track) /\ HasArchive(idx))
         => (Has("net.download", idx)' <=>
               (~offline /\ ~(isfile(fs, Archive(idx))
                               /\ fs[Archive(idx)] = track[idx].compressed_size_in_bytes)))]_vars

(* C2, the part the code keeps: the claim for the types whose sizes are    *)
(* declared                                                                *)
C2_DeclaredSizes ==
    [][(pc = "loop" /\ idx <= Len(track) /\ HasArchive(idx) /\ Declared(idx))
         => (Has("net.download", idx)' <=>
               (~offline /\ ~(isfile(fs, Archive(idx))
                               /\ fs[Archive(idx)] = track[idx].compressed_size_in_bytes)))]_vars

(* C3 (as claimed): when download() is over and the archive exists in a    *)
(* size other than the declared one, the run has failed with a DataError   *)
(* citing the actual and the expected size, and the type was neither       *)
(* decompressed nor indexed.                                               *)
C3_SizeMismatchIsDataError ==
    (InBody /\ isfile(fs, Archive(idx))
            /\ fs[Archive(idx)] # track[idx].compressed_size_in_bytes)
        => /\ pc = "failed"
           /\ err.type = "DataError"
           /\ track[idx].compressed_size_in_bytes # None
           /\ err.cites = <<getsize(fs, Archive(idx)),
                            track[idx].compressed_size_in_bytes[1]>>
           /\ ~Has("io.decompress", idx)
           /\ ~Has("offset_table", idx)

(* C3, the part the code keeps: the claim for the types whose sizes are    *)
(* declared                                                                *)
C3_DeclaredSizes ==
    (InBody /\ Declared(idx) /\ isfile(fs, Archive(idx))
            /\ fs[Archive(idx)] # track[idx].compressed_size_in_bytes)
        => /\ pc = "failed"
           /\ err = Error("DataError", "Downloaded",
                          <<getsize(fs, Archive(idx)),
                            track[idx].compressed_size_in_bytes[1]>>)
           /\ ~Has("io.decompress", idx)
           /\ ~Has("offset_table", idx)

(* C4 (as claimed): when download() is over and no archive exists, the run *)
(* has failed with a SystemSetupError and nothing was decompressed; offline*)
(* the message says to disable offline mode and no download was attempted, *)
(* online it says to verify the URL and the connection.                    *)
C4_MissingIsSetupError ==
    (InBody /\ ~isfile(fs, Archive(idx)))
        => /\ pc = "failed"
           /\ err.type = "SystemSetupError"
           /\ ~Has("io.decompress", idx)
           /\ offline => (err.msg = "disable offline mode" /\ ~Has("net.download", idx))
           /\ ~offline => err.msg = "verify url and connection"

(* C4, the part the code keeps: the claim for the types whose sizes are    *)
(* declared                                                                *)
C4_DeclaredSizes ==
    (InBody /\ Declared(idx) /\ ~isfile(fs, Archive(idx)))
        => /\ pc = "failed"
           /\ err.type = "SystemSetupError"
           /\ ~Has("io.decompress", idx)
           /\ offline => (err.msg = "disable offline mode" /\ ~Has("net.download", idx))
           /\ ~offline => err.msg = "verify url and connection"

(* C5: a URLError of net.download never leaves download(): after a failed  *)
(* download the run fails with a SystemSetupError when no archive is on    *)
(* disk and with a DataError when an archive of the wrong size is, and it  *)
(* goes on to decompression only with an archive of the expected size.     *)
C5_FailedDownload ==
    /\ err.type # "URLError"
    /\ (InBody /\ Has("URLError", idx)) =>
         IF ~isfile(fs, Archive(idx))
         THEN pc = "failed" /\ err.type = "SystemSetupError"
                            /\ ~Has("decompress.precheck", idx)
         ELSE IF fs[Archive(idx)] # track[idx].compressed_size_in_bytes
         THEN pc = "failed" /\ err.type = "DataError"
                            /\ ~Has("decompress.precheck", idx)
         ELSE TRUE

C5_Witness ==
    /\ pc = "failed" /\ Has("URLError", idx) /\ err.type = "DataError"

(* C6 (as claimed): in the decompress step io.decompress is called if and  *)
(* only if the document file is absent or not of the declared uncompressed *)
(* size; after a decompression a document file of another size ends the    *)
(* run with a DataError and no offset table is built.                      *)
C6_DecompressIff ==
    [][(pc = "decompress")
         => /\ Has("io.decompress", idx)' <=>
                 (~isfile(fs, DocumentFile(idx))
                    \/ fs[DocumentFile(idx)] # track[idx].uncompressed_size_in_bytes)
            /\ Has("io.decompress", idx)' =>
                 /\ Has("decompress.size", idx)'
                 /\ fs'[DocumentFile(idx)] # track[idx].uncompressed_size_in_bytes
                      => (pc' = "failed" /\ err'.type = "DataError")]_vars

(* C6, the part the code keeps: the claim for the types whose sizes are    *)
(* declared                                                                *)
C6_DeclaredSizes ==
    [][(pc = "decompress" /\ Declared(idx))
         => /\ Has("io.decompress", idx)' <=>
                 (~isfile(fs, DocumentFile(idx))
                    \/ fs[DocumentFile(idx)] # track[idx].uncompressed_size_in_bytes)
            /\ Has("io.decompress", idx)' =>
                 /\ Has("decompress.size", idx)'
                 /\ fs'[DocumentFile(idx)] # track[idx].uncompressed_size_in_bytes
                      => (pc' = "failed" /\ err'.type = "DataError")]_vars

(* C7: the steps of a type run in the order download, existence check,     *)
(* size check, decompression, offset table, type after type; a run that    *)
(* returns has built the offset table exactly once for every type with an  *)
(* archive, downloaded and decompressed or not; and the table is built     *)
(* only with the archive and the document file verified.                   *)
Rank(step) ==
    CASE step = "download.precheck" -> 1
      [] step = "net.download" -> 2
      [] step = "URLError" -> 3
      [] step = "download.exists" -> 4
      [] step = "download.size" -> 5
      [] step = "decompress.precheck" -> 6
      [] step = "io.decompress" -> 7
      [] step = "decompress.size" -> 8
      [] step = "offset_table" -> 9

C7_OrderAndRebuild ==
    /\ \A k, l \in 1..Len(trace) :
         k < l => \/ trace[k].idx < trace[l].idx
                  \/ /\ trace[k].idx = trace[l].idx
                     /\ Rank(trace[k].step) < Rank(trace[l].step)
    /\ pc = "done" => \A i \in ArchiveTypes : Count("offset_table", i) = 1
    /\ \A i \in 1..Len(track) : Count("offset_table", i) <= 1
    /\ pc = "offsets" => Correct(fs, track[idx])
    /\ \A i \in 1..Len(track) :
         Has("offset_table", i) =>
            /\ Has("download.precheck", i) /\ Has("decompress.precheck", i)
            /\ Has("net.download", i) =>
                 (Has("download.exists", i) /\ Has("download.size", i))
            /\ Has("io.decompress", i) => Has("decompress.size", i)

C7_Witness ==
    /\ pc = "done" /\ Cardinality(ArchiveTypes) = 2
    /\ NoWork(trace)
    /\ \A i \in ArchiveTypes : Count("offset_table", i) = 1

(* C8: a type without an archive is passed over: no step is executed for   *)
(* it and the filesystem stays as it is; a run over a track without any    *)
(* archive executes no step, changes no file and does not fail.            *)
C8_NoArchiveNoWork ==
    /\ [](/\ \A k \in 1..Len(trace) : HasArchive(trace[k].idx)
          /\ ArchiveTypes = {} =>
               (trace = << >> /\ fs = startFs /\ err = NoError /\ pc # "failed"))
    /\ [][(pc = "loop" /\ idx <= Len(track) /\ ~HasArchive(idx))
            => (fs' = fs /\ trace' = trace /\ err' = err /\ pc' = "loop"
                         /\ idx' = idx + 1)]_vars

C8_Witness ==
    /\ pc = "done" /\ Len(track) = 2 /\ Cardinality(ArchiveTypes) = 1
    /\ ~HasArchive(1) /\ ~NoWork(trace)

-----------------------------------------------------------------------------
(* TrackSpecificationReader. A JSON object is a function from its keys to  *)
(* their values; a missing key is a key outside its DOMAIN.                *)

OpNames == {"index", "search"}
OpTypeNames == {"index"}
ChallengeNames == {"c1", "c2"}
IterationValues == 0..MaxIterations

EmptyObj == << >>
Opt(key, optional) == IF optional = None THEN EmptyObj ELSE key :> optional[1]
Optional(S) == {None} \cup {Some(x) : x \in S}
Put(dict, key, value) ==
    [k \in DOMAIN dict \cup {key} |-> IF k = key THEN value ELSE dict[k]]

(* one entry of "operations" *)
OpSpecs ==
    {Opt("name", n) @@ Opt("operation-type", t) :
        n \in Optional(OpNames), t \in Optional(OpTypeNames)}

(* one task of a schedule or of a parallel block's "tasks" *)
TaskSpecs ==
    {Opt("operation", o) @@ Opt("warmup-iterations", w) @@ Opt("iterations", i) :
        o \in Optional(OpNames), w \in Optional(IterationValues),
        i \in Optional(IterationValues)}

(* a parallel block without its "tasks"; hasTasks says whether the key is there *)
ParallelSpecs ==
    {Opt("warmup-iterations", w) @@ Opt("iterations", i) :
        w \in Optional(IterationValues), i \in Optional(IterationValues)}

(* a challenge without its "schedule" *)
ChallengeSpecs ==
    {Opt("name", n) @@ Opt("description", d) :
        n \in Optional(ChallengeNames), d \in Optional({"text"})}

SyntaxError(msg, cites) == Error("TrackSyntaxError", msg, cites)

(* _r, lines 348-352: follow the path; None stands for the KeyError *)
RECURSIVE lookup(_, _)
lookup(structure, path) ==
    IF path = << >> THEN Some(structure)
    ELSE IF Head(path) \in DOMAIN structure
         THEN lookup(structure[Head(path)], Tail(path))
         ELSE None

(* _r: the value found (or the default) and the exception raised. The      *)
(* message of the exception names the dotted path and, when one is given,  *)
(* the error context.                                                      *)
_r(root, path, error_ctx, mandatory, default_value) ==
    LET found == lookup(root, path)
    IN IF found # None THEN [err |-> NoError, value |-> found]
       ELSE IF mandatory
       THEN [err |-> IF error_ctx # None
                     THEN SyntaxError("Mandatory element is missing in",
                                      <<path, error_ctx>>)
                     ELSE SyntaxError("Mandatory element is missing", <<path>>),
             value |-> None]
       ELSE [err |-> NoError, value |-> default_value]

(* lines 431-432: the error for an operation that is not in the table *)
missing_operation_unattributed(challenge_name, op_name) ==
    SyntaxError("schedule contains a non-existing operation",
                <<Some("parallel"), Some(op_name)>>)

missing_operation(challenge_name, op_name) ==
    SyntaxError("schedule contains a non-existing operation",
                <<Some(challenge_name), Some(op_name)>>)

(* parse_task: the track.Task built, or the exception raised *)
parse_task(spec, table, challenge_name, default_warmup_iterations, default_iterations) ==
    IF "operation" \notin DOMAIN spec
    THEN [err |-> Error("KeyError", "operation", << >>), task |-> None]
    ELSE
    LET op_name == spec["operation"]
    IN IF op_name \notin DOMAIN table
       THEN [err |-> missing_operation(challenge_name, op_name), task |-> None]
       ELSE [err |-> NoError,
             task |-> Some(
               [operation |-> table[op_name],
                warmup_iterations |->
                    _r(spec, <<"warmup-iterations">>, Some(op_name), FALSE,
                       default_warmup_iterations).value,
                warmup_time_period |->
                    _r(spec, <<"warmup-time-period">>, Some(op_name), FALSE, None).value,
                iterations |->
                    _r(spec, <<"iterations">>, Some(op_name), FALSE,
                       default_iterations).value,
                clients |->
                    _r(spec, <<"clients">>, Some(op_name), FALSE, Some(1)).value,
                target_throughput |->
                    _r(spec, <<"target-throughput">>, Some(op_name), FALSE, None).value])]

(* parse_operations: the table built from the "operations" list, a later   *)
(* entry replacing an earlier one of the same name, or the first exception *)
(* with the path that was looked up and the name of the operation it was   *)
(* looked up in                                                            *)
RECURSIVE parse_operations(_, _)
parse_operations(ops_specs, table) ==
    IF ops_specs = << >>
    THEN [err |-> NoError, ops |-> table, path |-> << >>, op_name |-> None]
    ELSE
    LET op_spec == Head(ops_specs)
        op_name == _r(op_spec, <<"name">>, Some("operations"), TRUE, None)
        op_type_name == _r(op_spec, <<"operation-type">>, Some("operations"), TRUE, None)
        param_source == _r(op_spec, <<"param-source">>, Some("operations"), FALSE, None)
    IN IF op_name.err # NoError
       THEN [err |-> op_name.err, ops |-> table,
             path |-> <<"name">>, op_name |-> None]
       ELSE IF op_type_name.err # NoError
       THEN [err |-> op_type_name.err, ops |-> table,
             path |-> <<"operation-type">>, op_name |-> op_name.value]
       ELSE parse_operations(Tail(ops_specs),
                Put(table, op_name.value[1],
                    [name |-> op_name.value[1],
                     type |-> op_type_name.value[1],
                     param_source |-> param_source.value]))

(* the record of the input: one more entry in the schedule of the          *)
(* challenge being read, and one more task in the block being read         *)
Declared_entry(shape, kind) ==
    [shape EXCEPT ![Len(shape)] = Append(@, [kind |-> kind, tasks |-> 0])]
Declared_task(shape) ==
    LET entries == shape[Len(shape)]
        last == entries[Len(entries)]
    IN [shape EXCEPT ![Len(shape)] =
          [entries EXCEPT ![Len(entries)] = [last EXCEPT !.tasks = last.tasks + 1]]]

(* the "meta" object *)
MetaSpecs ==
    {Opt("short-description", s) @@ Opt("description", d) @@ Opt("data-url", u) :
        s \in Optional({"short"}), d \in Optional({"text"}), u \in Optional({"url"})}

(* the empty string as the name of an archive *)
EmptyName == [base |-> "", ext |-> ""]

(* one entry of an index's "types": the sizes and the document count are   *)
(* declared at most where documents are                                    *)
TypeSpecs ==
    {Opt("name", n) @@ Opt("mapping", m) @@ Opt("documents", d) :
        n \in Optional({"type"}), m \in Optional({"mappings.json"}),
        d \in Optional({EmptyName})}
    \cup
    {Opt("name", n) @@ Opt("mapping", m) @@ ("documents" :> [base |-> "a", ext |-> ".bz2"])
        @@ Opt("document-count", c) @@ Opt("compressed-bytes", cb)
        @@ Opt("uncompressed-bytes", ub) :
        n \in Optional({"type"}), m \in Optional({"mappings.json"}),
        c \in Optional({1}), cb \in Optional(Sizes \cap {1}),
        ub \in Optional(Sizes \cap {1})}

(* one entry of "indices" without its "types" *)
IndexSpecs ==
    {Opt("name", n) @@ Opt("types", IF has_types THEN Some(types) ELSE None) :
        n \in Optional({"index"}), has_types \in BOOLEAN,
        types \in UNION {[1..k -> TypeSpecs] : k \in 0..MaxIndexTypes}}

(* _create_type, lines 376-392: the track.Type built, or the exception of  *)
(* the first mandatory lookup that finds nothing, with its path            *)
_create_type(type_spec) ==
    LET compressed_docs == _r(type_spec, <<"documents">>, None, FALSE, None).value
        truthy == compressed_docs # None /\ compressed_docs[1] # EmptyName
        name == _r(type_spec, <<"name">>, None, TRUE, None)
        mapping == _r(type_spec, <<"mapping">>, None, TRUE, None)
    IN IF name.err # NoError
       THEN [err |-> name.err, path |-> <<"name">>, type |-> None]
       ELSE IF mapping.err # NoError
       THEN [err |-> mapping.err, path |-> <<"mapping">>, type |-> None]
       ELSE [err |-> NoError, path |-> << >>,
             type |-> Some(
               [name |-> name.value[1],
                mapping_file |-> mapping.value[1],
                document_file |->
                    IF truthy THEN Some(splitext(compressed_docs[1])[1]) ELSE None,
                document_archive |-> IF truthy THEN compressed_docs ELSE None,
                number_of_documents |->
                    _r(type_spec, <<"document-count">>, None, FALSE, Some(0)).value,
                compressed_size_in_bytes |->
                    _r(type_spec, <<"compressed-bytes">>, None, FALSE, None).value,
                uncompressed_size_in_bytes |->
                    _r(type_spec, <<"uncompressed-bytes">>, None, FALSE, None).value])]

(* line 364: the list comprehension over the "types" of an index, the     *)
(* types built so far in `types`; with the type `t` built from the first   *)
(* of `type_specs`, the comprehension goes on with the rest or is left by  *)
(* the exception                                                           *)
RECURSIVE _create_types(_, _)
RECURSIVE _create_types_next(_, _, _)
_create_types_next(t, type_specs, types) ==
    IF t.err # NoError
    THEN [err |-> t.err, path |-> t.path, types |-> << >>]
    ELSE _create_types(Tail(type_specs), Append(types, t.type[1]))

_create_types(type_specs, types) ==
    IF type_specs = << >> THEN [err |-> NoError, path |-> << >>, types |-> types]
    ELSE _create_types_next(_create_type(Head(type_specs)), type_specs, types)

(* track.Type.has_valid_document_data *)
has_valid_document_data(type) ==
    type.document_file # None /\ type.number_of_documents[1] > 0

(* lines 365-374: the warning of line 371 unless a type has valid          *)
(* document data, and the track.Index of the types built                   *)
_create_index_of(index_name, types) ==
    IF types.err # NoError
    THEN [err |-> types.err, path |-> types.path, index |-> None, warnings |-> << >>]
    ELSE [err |-> NoError, path |-> << >>,
          index |-> Some([name |-> index_name, types |-> types.types]),
          warnings |->
              IF \E k \in 1..Len(types.types) : has_valid_document_data(types.types[k])
              THEN << >>
              ELSE <<"None of the types for index defines documents.">>]

(* _create_index, lines 362-374: the track.Index built and whether the     *)
(* warning of line 371 was printed, or the exception                       *)
_create_index(index_spec) ==
    LET index_name == _r(index_spec, <<"name">>, None, TRUE, None)
        type_specs == _r(index_spec, <<"types">>, None, TRUE, None)
    IN IF index_name.err # NoError
       THEN [err |-> index_name.err, path |-> <<"name">>, index |-> None, warnings |-> << >>]
       ELSE IF type_specs.err # NoError
       THEN [err |-> type_specs.err, path |-> <<"types">>, index |-> None, warnings |-> << >>]
       ELSE _create_index_of(index_name.value[1],
                             _create_types(type_specs.value[1], << >>))

(* line 334: the list comprehension over "indices", the indices built and  *)
(* the warnings printed so far in `built` and `warned`; with the index `i` *)
(* built from the first of `index_specs`, the comprehension goes on with   *)
(* the rest or is left by the exception                                    *)
RECURSIVE _create_indices(_, _, _)
RECURSIVE _create_indices_next(_, _, _, _)
_create_indices_next(i, index_specs, built, warned) ==
    IF i.err # NoError
    THEN [err |-> i.err, path |-> i.path, indices |-> << >>, warnings |-> warned]
    ELSE _create_indices(Tail(index_specs), Append(built, i.index[1]),
                         warned \o i.warnings)

_create_indices(index_specs, built, warned) ==
    IF index_specs = << >>
    THEN [err |-> NoError, path |-> << >>, indices |-> built, warnings |-> warned]
    ELSE _create_indices_next(_create_index(Head(index_specs)), index_specs, built, warned)

ParseInit ==
    /\ pstate = "render"
    /\ ops = << >>
    /\ n_ops = 0
    /\ challenges = << >>
    /\ challenge = None
    /\ schedule = << >>
    /\ parallel = None
    /\ task_spec = None
    /\ perr = NoError
    /\ result = None
    /\ steps = << >>
    /\ indices = << >>
    /\ op_names = << >>
    /\ input_shape = << >>
    /\ missing = None
    /\ warnings = << >>
    /\ track = << >>
    /\ offline = FALSE
    /\ fs = [p \in Paths |-> None]
    /\ pc = "idle"
    /\ idx = 1
    /\ err = NoError
    /\ trace = << >>
    /\ run = 1
    /\ startFs = fs
    /\ prev = [ok |-> FALSE, worked |-> FALSE]
    /\ RepoIdle
    /\ PluginIdle

(* an exception leaves the reader: the lists under construction are lost *)
Fail(e) ==
    /\ pstate' = "failed"
    /\ perr' = e

(* a mandatory lookup found nothing: the exception of _r leaves the reader *)
FailMissing(e, path, named) ==
    /\ Fail(e)
    /\ missing' = Some([path |-> path, entity |-> named])

(* TrackFileReader.read, line 284: render_template_from_file *)
RenderTemplate ==
    /\ pstate = "render"
    /\ \E rendered \in BOOLEAN :
         /\ steps' = Append(steps, [step |-> "render", ok |-> rendered])
         /\ IF rendered
            THEN pstate' = "decode" /\ UNCHANGED perr
            ELSE \* jinja2.exceptions.TemplateError, lines 287-289
                 Fail(SyntaxError("Could not load", <<<<"TemplateError">>>>))
    /\ UNCHANGED <<ops, n_ops, challenges, challenge, schedule, parallel, task_spec, result>>
    /\ UNCHANGED <<indices, op_names, input_shape, missing, warnings>>
    /\ UNCHANGED stagerVars
    /\ UNCHANGED repoVars
    /\ UNCHANGED pluginVars

(* line 286: json.loads of the rendered text *)
JsonLoads ==
    /\ pstate = "decode"
    /\ \E decoded \in BOOLEAN :
         /\ steps' = Append(steps, [step |-> "decode", ok |-> decoded])
         /\ IF decoded
            THEN pstate' = "validate" /\ UNCHANGED perr
            ELSE \* json.JSONDecodeError, lines 287-289
                 Fail(SyntaxError("Could not load", <<<<"JSONDecodeError">>>>))
    /\ UNCHANGED <<ops, n_ops, challenges, challenge, schedule, parallel, task_spec, result>>
    /\ UNCHANGED <<indices, op_names, input_shape, missing, warnings>>
    /\ UNCHANGED stagerVars
    /\ UNCHANGED repoVars
    /\ UNCHANGED pluginVars

Validate_lenient ==
    /\ pstate = "validate"
    /\ \E valid \in BOOLEAN :
         /\ steps' = Append(steps, [step |-> "validate", ok |-> valid])
         /\ pstate' = "call" /\ UNCHANGED perr
    /\ UNCHANGED <<ops, n_ops, challenges, challenge, schedule, parallel, task_spec, result>>
    /\ UNCHANGED <<indices, op_names, input_shape, missing, warnings>>
    /\ UNCHANGED stagerVars
    /\ UNCHANGED repoVars
    /\ UNCHANGED pluginVars

(* lines 290-296: jsonschema.validate against the track schema *)
Validate ==
    /\ pstate = "validate"
    /\ \E valid \in BOOLEAN :
         /\ steps' = Append(steps, [step |-> "validate", ok |-> valid])
         /\ IF valid
            THEN pstate' = "call" /\ UNCHANGED perr
            ELSE \* jsonschema.exceptions.ValidationError, lines 292-296
                 Fail(SyntaxError("Track is invalid. Error details",
                                  <<<<"message">>, <<"instance">>, <<"absolute_path">>,
                                    <<"absolute_schema_path">>>>))
    /\ UNCHANGED <<ops, n_ops, challenges, challenge, schedule, parallel, task_spec, result>>
    /\ UNCHANGED <<indices, op_names, input_shape, missing, warnings>>
    /\ UNCHANGED stagerVars
    /\ UNCHANGED repoVars
    /\ UNCHANGED pluginVars

(* line 297 and TrackSpecificationReader.__call__, lines 330-333: the      *)
(* reader is called and looks up the three fields of "meta"                *)
ReadMeta ==
    /\ pstate = "call"
    /\ steps' = Append(steps, [step |-> "parse", ok |-> TRUE])
    /\ \E has_meta \in BOOLEAN, meta \in MetaSpecs :
         LET track_specification == Opt("meta", IF has_meta THEN Some(meta) ELSE None)
             short_description ==
                 _r(track_specification, <<"meta", "short-description">>, None, TRUE, None)
             description ==
                 _r(track_specification, <<"meta", "description">>, None, TRUE, None)
             source_root_url ==
                 _r(track_specification, <<"meta", "data-url">>, None, TRUE, None)
         IN IF short_description.err # NoError
            THEN FailMissing(short_description.err, <<"meta", "short-description">>, None)
            ELSE IF description.err # NoError
            THEN FailMissing(description.err, <<"meta", "description">>, None)
            ELSE IF source_root_url.err # NoError
            THEN FailMissing(source_root_url.err, <<"meta", "data-url">>, None)
            ELSE pstate' = "indices" /\ UNCHANGED <<perr, missing>>
    /\ UNCHANGED <<ops, n_ops, challenges, challenge, schedule, parallel, task_spec, result>>
    /\ UNCHANGED <<indices, op_names, input_shape, warnings>>
    /\ UNCHANGED stagerVars
    /\ UNCHANGED repoVars
    /\ UNCHANGED pluginVars

(* line 334: the "indices" list is looked up and every index is created *)
CreateIndices ==
    /\ pstate = "indices"
    /\ \E has_indices \in BOOLEAN, n \in 0..MaxIndices :
       \E index_specs \in [1..n -> IndexSpecs] :
         LET track_specification ==
                 Opt("indices", IF has_indices THEN Some(index_specs) ELSE None)
             r == _r(track_specification, <<"indices">>, None, TRUE, None)
         IN IF r.err # NoError
            THEN FailMissing(r.err, <<"indices">>, None) /\ UNCHANGED <<indices, warnings>>
            ELSE \E c \in {_create_indices(r.value[1], << >>, << >>)} :
                 IF c.err # NoError
                 THEN FailMissing(c.err, c.path, None) /\ warnings' = c.warnings
                      /\ UNCHANGED indices
                 ELSE /\ indices' = c.indices
                      /\ warnings' = c.warnings
                      /\ pstate' = "start"
                      /\ UNCHANGED <<perr, missing>>
    /\ UNCHANGED <<ops, n_ops, challenges, challenge, schedule, parallel, task_spec, result>>
    /\ UNCHANGED <<steps, op_names, input_shape>>
    /\ UNCHANGED stagerVars
    /\ UNCHANGED repoVars
    /\ UNCHANGED pluginVars

(* _create_challenges, lines 395 and 397: the operations table is built,   *)
(* then the "challenges" list is looked up                                 *)
ParseOperations ==
    /\ pstate = "start"
    /\ \E n \in 0..MaxOps, has_operations, has_challenges \in BOOLEAN :
       \E ops_specs \in [1..n -> OpSpecs] :
         LET track_spec == Opt("operations", IF has_operations THEN Some(ops_specs) ELSE None)
                           @@ Opt("challenges", IF has_challenges THEN Some(<< >>) ELSE None)
             r == _r(track_spec, <<"operations">>, None, TRUE, None)
             c == _r(track_spec, <<"challenges">>, None, TRUE, None)
             o == parse_operations(r.value[1], << >>)
         IN IF r.err # NoError
            THEN FailMissing(r.err, <<"operations">>, None)
                 /\ UNCHANGED <<ops, n_ops, op_names>>
            ELSE IF o.err # NoError
            THEN FailMissing(o.err, o.path, o.op_name)
                 /\ UNCHANGED <<ops, n_ops, op_names>>
            ELSE IF c.err # NoError
            THEN FailMissing(c.err, <<"challenges">>, None)
                 /\ ops' = o.ops /\ n_ops' = n
                 /\ op_names' = [k \in 1..n |-> ops_specs[k]["name"]]
            ELSE /\ ops' = o.ops
                 /\ n_ops' = n
                 /\ op_names' = [k \in 1..n |-> ops_specs[k]["name"]]
                 /\ pstate' = "challenges"
                 /\ perr' = NoError
                 /\ UNCHANGED missing
    /\ UNCHANGED <<challenges, challenge, schedule, parallel, task_spec, result>>
    /\ UNCHANGED <<steps, indices, input_shape, warnings>>
    /\ UNCHANGED stagerVars
    /\ UNCHANGED repoVars
    /\ UNCHANGED pluginVars

(* lines 397-404: the next challenge's name, description and schedule      *)
BeginChallenge ==
    /\ pstate = "challenges"
    /\ Len(challenges) < MaxChallenges
    /\ \E spec \in ChallengeSpecs, has_schedule \in BOOLEAN :
         LET c == spec @@ Opt("schedule", IF has_schedule THEN Some(<< >>) ELSE None)
             challenge_name == _r(c, <<"name">>, Some("challenges"), TRUE, None)
             challenge_description == _r(c, <<"description">>, challenge_name.value, TRUE, None)
             index_settings == _r(c, <<"index-settings">>, challenge_name.value, FALSE, None)
             sched == _r(c, <<"schedule">>, challenge_name.value, TRUE, None)
         IN IF challenge_name.err # NoError
            THEN FailMissing(challenge_name.err, <<"name">>, None)
                 /\ UNCHANGED <<challenge, input_shape>>
            ELSE IF challenge_description.err # NoError
            THEN FailMissing(challenge_description.err, <<"description">>,
                             challenge_name.value)
                 /\ UNCHANGED <<challenge, input_shape>>
            ELSE IF sched.err # NoError
            THEN FailMissing(sched.err, <<"schedule">>, challenge_name.value)
                 /\ UNCHANGED <<challenge, input_shape>>
            ELSE /\ challenge' = Some([name |-> challenge_name.value[1],
                                       description |-> challenge_description.value[1],
                                       index_settings |-> index_settings.value])
                 /\ input_shape' = Append(input_shape, << >>)
                 /\ pstate' = "schedule"
                 /\ perr' = NoError
                 /\ UNCHANGED missing
    /\ schedule' = << >>
    /\ task_spec' = None
    /\ UNCHANGED <<ops, n_ops, challenges, parallel, result>>
    /\ UNCHANGED <<steps, indices, op_names, warnings>>
    /\ UNCHANGED stagerVars
    /\ UNCHANGED repoVars
    /\ UNCHANGED pluginVars

(* lines 404-409, an entry without "parallel": parse_task with the         *)
(* defaults of its signature                                               *)
ParseTask ==
    /\ pstate = "schedule"
    /\ Len(schedule) < MaxSchedule
    /\ \E op \in TaskSpecs :
         LET r == parse_task(op, ops, challenge[1].name, Some(0), Some(1))
         IN /\ task_spec' = Some(op)
            /\ IF r.err # NoError
               THEN Fail(r.err) /\ UNCHANGED <<schedule, input_shape>>
               ELSE /\ schedule' = Append(schedule, [kind |-> "task", task |-> r.task[1]])
                    /\ input_shape' = Declared_entry(input_shape, "task")
                    /\ UNCHANGED <<pstate, perr>>
    /\ UNCHANGED <<ops, n_ops, challenges, challenge, parallel, result>>
    /\ UNCHANGED <<steps, indices, op_names, missing, warnings>>
    /\ UNCHANGED stagerVars
    /\ UNCHANGED repoVars
    /\ UNCHANGED pluginVars

(* lines 405-406 and 418-424: an entry with "parallel"; the block's        *)
(* defaults, its clients and its "tasks" are looked up                     *)
BeginParallel ==
    /\ pstate = "schedule"
    /\ Len(schedule) < MaxSchedule
    /\ \E spec \in ParallelSpecs, has_tasks \in BOOLEAN :
         LET ops_spec == spec @@ Opt("tasks", IF has_tasks THEN Some(<< >>) ELSE None)
             default_warmup_iterations ==
                 _r(ops_spec, <<"warmup-iterations">>, Some("parallel"), FALSE, None)
             default_iterations ==
                 _r(ops_spec, <<"iterations">>, Some("parallel"), FALSE, None)
             clients == _r(ops_spec, <<"clients">>, Some("parallel"), FALSE, None)
             tasks == _r(ops_spec, <<"tasks">>, Some("parallel"), TRUE, None)
         IN IF tasks.err # NoError
            THEN FailMissing(tasks.err, <<"tasks">>, Some(challenge[1].name))
                 /\ UNCHANGED <<parallel, input_shape>>
            ELSE /\ input_shape' = Declared_entry(input_shape, "parallel")
                 /\ UNCHANGED missing
                 /\ parallel' = Some(
                       [default_warmup_iterations |-> default_warmup_iterations.value,
                        default_iterations |-> default_iterations.value,
                        clients |-> clients.value,
                        tasks |-> << >>])
                 /\ pstate' = "parallel"
                 /\ perr' = NoError
    /\ task_spec' = None
    /\ UNCHANGED <<ops, n_ops, challenges, challenge, schedule, result>>
    /\ UNCHANGED <<steps, indices, op_names, warnings>>
    /\ UNCHANGED stagerVars
    /\ UNCHANGED repoVars
    /\ UNCHANGED pluginVars

(* lines 424-425: the next task of the block, parsed with the block's      *)
(* defaults                                                                *)
ParseParallelTask ==
    /\ pstate = "parallel"
    /\ Len(parallel[1].tasks) < MaxTasks
    /\ \E task \in TaskSpecs :
         LET r == parse_task(task, ops, challenge[1].name,
                             parallel[1].default_warmup_iterations,
                             parallel[1].default_iterations)
         IN /\ task_spec' = Some(task)
            /\ IF r.err # NoError
               THEN Fail(r.err) /\ UNCHANGED <<parallel, input_shape>>
               ELSE /\ parallel' = Some([parallel[1] EXCEPT
                                           !.tasks = Append(@, r.task[1])])
                    /\ input_shape' = Declared_task(input_shape)
                    /\ UNCHANGED <<pstate, perr>>
    /\ UNCHANGED <<ops, n_ops, challenges, challenge, schedule, result>>
    /\ UNCHANGED <<steps, indices, op_names, missing, warnings>>
    /\ UNCHANGED stagerVars
    /\ UNCHANGED repoVars
    /\ UNCHANGED pluginVars

EndParallel_flat ==
    /\ pstate = "parallel"
    /\ schedule' = schedule \o [k \in 1..Len(parallel[1].tasks) |->
                                  [kind |-> "task", task |-> parallel[1].tasks[k]]]
    /\ parallel' = None
    /\ pstate' = "schedule"
    /\ task_spec' = None
    /\ UNCHANGED <<ops, n_ops, challenges, challenge, perr, result>>
    /\ UNCHANGED <<steps, indices, op_names, input_shape, missing, warnings>>
    /\ UNCHANGED stagerVars
    /\ UNCHANGED repoVars
    /\ UNCHANGED pluginVars

(* lines 426 and 409: track.Parallel(tasks, clients) joins the schedule    *)
EndParallel ==
    /\ pstate = "parallel"
    /\ schedule' = Append(schedule, [kind |-> "parallel",
                                     tasks |-> parallel[1].tasks,
                                     clients |-> parallel[1].clients])
    /\ parallel' = None
    /\ pstate' = "schedule"
    /\ task_spec' = None
    /\ UNCHANGED <<ops, n_ops, challenges, challenge, perr, result>>
    /\ UNCHANGED <<steps, indices, op_names, input_shape, missing, warnings>>
    /\ UNCHANGED stagerVars
    /\ UNCHANGED repoVars
    /\ UNCHANGED pluginVars

(* lines 411-414: the challenge joins the list *)
EndChallenge ==
    /\ pstate = "schedule"
    /\ challenges' = Append(challenges,
                            [name |-> challenge[1].name,
                             description |-> challenge[1].description,
                             index_settings |-> challenge[1].index_settings,
                             schedule |-> schedule])
    /\ challenge' = None
    /\ schedule' = << >>
    /\ pstate' = "challenges"
    /\ task_spec' = None
    /\ UNCHANGED <<ops, n_ops, parallel, perr, result>>
    /\ UNCHANGED <<steps, indices, op_names, input_shape, missing, warnings>>
    /\ UNCHANGED stagerVars
    /\ UNCHANGED repoVars
    /\ UNCHANGED pluginVars

(* lines 415 and 337-339: the track is returned *)
ReturnTrack ==
    /\ pstate = "challenges"
    /\ result' = Some([short_description |-> "short", description |-> "text",
                        source_root_url |-> "url",
                        challenges |-> challenges, indices |-> indices])
    /\ pstate' = "returned"
    /\ task_spec' = None
    /\ UNCHANGED <<ops, n_ops, challenges, challenge, schedule, parallel, perr>>
    /\ UNCHANGED <<steps, indices, op_names, input_shape, missing, warnings>>
    /\ UNCHANGED stagerVars
    /\ UNCHANGED repoVars
    /\ UNCHANGED pluginVars

ParseNext ==
    \/ RenderTemplate
    \/ JsonLoads
    \/ Validate
    \/ ReadMeta
    \/ CreateIndices
    \/ ParseOperations
    \/ BeginChallenge
    \/ ParseTask
    \/ BeginParallel
    \/ ParseParallelTask
    \/ EndParallel
    \/ EndChallenge
    \/ ReturnTrack

SpecParse == ParseInit /\ [][ParseNext]_vars

-----------------------------------------------------------------------------
(* Vocabulary of the reader claims *)

(* parse_task has just returned a task: inside a parallel block, or as a   *)
(* schedule entry of its own                                               *)
ChildParsed == task_spec # None /\ pstate = "parallel"
TopLevelParsed == task_spec # None /\ pstate = "schedule"
LastChild == parallel[1].tasks[Len(parallel[1].tasks)]
LastEntry == schedule[Len(schedule)].task

Own(spec, key) == IF key \in DOMAIN spec THEN Some(spec[key]) ELSE None
Effective(own, block_default, builtin) ==
    IF own # None THEN own
    ELSE IF block_default # None THEN block_default
    ELSE Some(builtin)

(* C9 (as claimed): a task of a parallel block gets its own                *)
(* warmup-iterations and iterations when it declares them, else the        *)
(* block's defaults when the block declares them, else 0 and 1; a task     *)
(* outside a block that declares nothing gets 0 and 1.                     *)
C9_EffectiveIterations ==
    /\ ChildParsed =>
         /\ LastChild.warmup_iterations =
              Effective(Own(task_spec[1], "warmup-iterations"),
                        parallel[1].default_warmup_iterations, 0)
         /\ LastChild.iterations =
              Effective(Own(task_spec[1], "iterations"),
                        parallel[1].default_iterations, 1)
    /\ TopLevelParsed =>
         /\ LastEntry.warmup_iterations =
              Effective(Own(task_spec[1], "warmup-iterations"), None, 0)
         /\ LastEntry.iterations =
              Effective(Own(task_spec[1], "iterations"), None, 1)

(* C9, the part the code keeps: the claim for every task but the child of  *)
(* a parallel block where neither declares the value                       *)
C9_DeclaredSomewhere ==
    /\ ChildParsed =>
         /\ (Own(task_spec[1], "warmup-iterations") # None
               \/ parallel[1].default_warmup_iterations # None)
              => LastChild.warmup_iterations =
                   Effective(Own(task_spec[1], "warmup-iterations"),
                             parallel[1].default_warmup_iterations, 0)
         /\ (Own(task_spec[1], "iterations") # None
               \/ parallel[1].default_iterations # None)
              => LastChild.iterations =
                   Effective(Own(task_spec[1], "iterations"),
                             parallel[1].default_iterations, 1)
    /\ TopLevelParsed =>
         /\ LastEntry.warmup_iterations =
              Effective(Own(task_spec[1], "warmup-iterations"), None, 0)
         /\ LastEntry.iterations =
              Effective(Own(task_spec[1], "iterations"), None, 1)

(* C10: a task, in the schedule or in a parallel block, that names an      *)
(* operation missing from the table ends parsing with a TrackSyntaxError   *)
(* naming the challenge and the operation, and no track is returned; a     *)
(* task that names an operation of the table gets the operation stored     *)
(* under that name.                                                        *)
C10_OperationResolved ==
    /\ pstate = "failed" => result = None
    /\ (task_spec # None /\ "operation" \in DOMAIN task_spec[1]) =>
         IF task_spec[1]["operation"] \notin DOMAIN ops
         THEN /\ pstate = "failed"
              /\ perr.type = "TrackSyntaxError"
              /\ perr.cites = <<Some(challenge[1].name),
                                Some(task_spec[1]["operation"])>>
              /\ result = None
         ELSE /\ pstate \in {"schedule", "parallel"}
              /\ perr = NoError
              /\ IF pstate = "parallel"
                 THEN LastChild.operation = ops[task_spec[1]["operation"]]
                 ELSE LastEntry.operation = ops[task_spec[1]["operation"]]
              /\ ops[task_spec[1]["operation"]].name = task_spec[1]["operation"]

C10_Witness ==
    /\ pstate = "failed" /\ parallel # None /\ Len(schedule) = 1
    /\ task_spec # None /\ "operation" \in DOMAIN task_spec[1]
    /\ task_spec[1]["operation"] \notin DOMAIN ops
    /\ DOMAIN ops # {}

-----------------------------------------------------------------------------
(* Counts of the parsed model against the input that was read *)

ScheduleMatches(sched, shape) ==
    /\ Len(sched) = Len(shape)
    /\ \A k \in 1..Len(shape) :
         /\ sched[k].kind = shape[k].kind
         /\ sched[k].kind = "parallel" => Len(sched[k].tasks) = shape[k].tasks

ChallengesMatch ==
    /\ Len(result[1].challenges) = Len(input_shape)
    /\ \A c \in 1..Len(input_shape) :
         ScheduleMatches(result[1].challenges[c].schedule, input_shape[c])

DistinctOpNames == {op_names[k] : k \in 1..Len(op_names)}

(* C11 (as claimed): when the reader returns a track, the operations table *)
(* has as many operations as the "operations" list of the input, there are *)
(* as many challenges as challenge entries, and every schedule has as many *)
(* entries as the input's schedule, a parallel block being one entry with  *)
(* as many tasks as it declares.                                           *)
C11_Original ==
    result # None =>
        /\ Cardinality(DOMAIN ops) = n_ops
        /\ ChallengesMatch

(* C11 (amended): the same, the operations table having as many operations *)
(* as the input has distinct operation names; that is the number of        *)
(* operations of the input when their names are pairwise distinct.         *)
C11_Counts ==
    result # None =>
        /\ Cardinality(DOMAIN ops) = Cardinality(DistinctOpNames)
        /\ DOMAIN ops = DistinctOpNames
        /\ Cardinality(DistinctOpNames) = n_ops => Cardinality(DOMAIN ops) = n_ops
        /\ ChallengesMatch

C11_Witness ==
    /\ result # None
    /\ n_ops = 2 /\ Cardinality(DOMAIN ops) = 2
    /\ Len(result[1].challenges) = 1
    /\ Len(result[1].challenges[1].schedule) = 2
    /\ \E k \in 1..2 :
         /\ result[1].challenges[1].schedule[k].kind = "parallel"
         /\ Len(result[1].challenges[1].schedule[k].tasks) = 1

-----------------------------------------------------------------------------
(* TrackRepository. A branch is named by the version it is for.            *)

Versions == 1..MaxVersion

(* esrally.utils.versions.best_match: the branch of the version itself,    *)
(* else the branch of the nearest lower version, else None                 *)
best_match(available, version) ==
    IF version \in available THEN Some(version)
    ELSE LET lower == {b \in available : b < version}
         IN IF lower = {} THEN None
            ELSE Some(CHOOSE b \in lower : \A c \in lower : c <= b)

(* one call into esrally.utils.git: the operation, the branch it is given  *)
(* (None when it takes none) and whether it returned normally              *)
GitOp(op, branch, ok) == [op |-> op, branch |-> branch, ok |-> ok]

(* what the git commands of one _update do: return, or raise SupplyError   *)
GitOutcomes == [checkout : BOOLEAN, rebase : BOOLEAN]

(* line 188: a normal git repo with a remote, to be refreshed *)
refreshes(rem, offl, ftch) == rem /\ ~offl /\ ftch

(* lines 190-193: clone when there is no working copy, else fetch *)
clone_or_fetch_both(is_working_copy) ==
    IF ~is_working_copy THEN <<"clone", "fetch">> ELSE <<"fetch">>

clone_or_fetch(is_working_copy) ==
    IF ~is_working_copy THEN <<"clone">> ELSE <<"fetch">>

(* line 217: are the remote branches consulted? *)
consults_remote_when_offline(rem, offl) == rem

consults_remote(rem, offl) == rem /\ ~offl

(* lines 232-234: the notice that track data are now searched locally *)
fallback_notice_silent == << >>

fallback_notice == <<"Could not find track data remotely. Trying to find track data locally.">>

(* lines 225-230: git.rebase and the handler around it. The handler logs   *)
(* and warns; nothing leaves it.                                           *)
rebase_raising(branch, g) ==
    [ops |-> <<GitOp("rebase", branch, g.rebase)>>,
     messages |-> << >>,
     err |-> IF g.rebase THEN NoError ELSE Error("SupplyError", "rebase", << >>)]

rebase(branch, g) ==
    [ops |-> <<GitOp("rebase", branch, g.rebase)>>,
     messages |-> IF g.rebase THEN << >>
                  ELSE <<"Local changes prevent track update from remote.">>,
     err |-> NoError]

(* lines 240-241: no branch for the version, neither remotely nor locally *)
no_match_ignored == NoError

no_match == Error("SystemSetupError", "Cannot find track data for distribution version", << >>)

(* lines 242-244: a SupplyError leaves _update as a DataError *)
except_SupplyError(e) ==
    IF e.type = "SupplyError"
    THEN Error("DataError", "Cannot update track data", << >>)
    ELSE e

(* _update: the branch the working copy is on afterwards, the local        *)
(* branches, the git operations performed, the warnings and the exception  *)
(* raised (NoError when it returns)                                        *)
_update(rem, offl, rbranches, lbranches, cur, version, g) ==
    LET consult == consults_remote(rem, offl)
        remote_match == IF consult THEN best_match(rbranches, version) ELSE None
        local_match == best_match(lbranches, version)
        listed == IF consult THEN <<GitOp("branches_remote", None, TRUE)>> ELSE << >>
        notice == IF consult THEN fallback_notice ELSE << >>
    IN
    IF remote_match # None
    THEN IF ~g.checkout
         THEN [current |-> cur, local_branches |-> lbranches,
               ops |-> listed \o <<GitOp("checkout", remote_match, FALSE)>>,
               messages |-> << >>,
               err |-> except_SupplyError(Error("SupplyError", "checkout", << >>))]
         ELSE LET r == rebase(remote_match, g)
              IN [current |-> remote_match,
                  local_branches |-> lbranches \cup {remote_match[1]},
                  ops |-> listed \o <<GitOp("checkout", remote_match, TRUE)>> \o r.ops,
                  messages |-> r.messages,
                  err |-> except_SupplyError(r.err)]
    ELSE
    LET ops_local == listed \o <<GitOp("branches_local", None, TRUE)>>
    IN
    IF local_match # None
    THEN IF ~g.checkout
         THEN [current |-> cur, local_branches |-> lbranches,
               ops |-> ops_local \o <<GitOp("checkout", local_match, FALSE)>>,
               messages |-> notice,
               err |-> except_SupplyError(Error("SupplyError", "checkout", << >>))]
         ELSE [current |-> local_match, local_branches |-> lbranches,
               ops |-> ops_local \o <<GitOp("checkout", local_match, TRUE)>>,
               messages |-> notice,
               err |-> NoError]
    ELSE [current |-> cur, local_branches |-> lbranches,
          ops |-> ops_local,
          messages |-> notice,
          err |-> except_SupplyError(no_match)]

RepoInit ==
    /\ remote \in BOOLEAN
    /\ offline \in BOOLEAN
    /\ fetch \in BOOLEAN
    /\ working_copy \in BOOLEAN
    /\ remote_branches \in SUBSET Versions
    /\ ~remote => remote_branches = {}
    /\ local_branches \in SUBSET Versions
    /\ ~working_copy => local_branches = {}
    /\ current \in {None} \cup {Some(b) : b \in local_branches}
    /\ distribution_version \in Versions
    /\ git_ops = << >>
    /\ messages = << >>
    /\ rpc = "new"
    /\ rerr = NoError
    /\ updates = 0
    /\ resolved = None
    /\ track = << >>
    /\ fs = [p \in Paths |-> None]
    /\ pc = "idle"
    /\ idx = 1
    /\ err = NoError
    /\ trace = << >>
    /\ run = 1
    /\ startFs = fs
    /\ prev = [ok |-> FALSE, worked |-> FALSE]
    /\ ParserIdle
    /\ PluginIdle

(* TrackRepository.__init__, lines 178-197 *)
TrackRepository_init ==
    /\ rpc = "new"
    /\ IF refreshes(remote, offline, fetch)
       THEN \E ok \in BOOLEAN :
              LET cmds == clone_or_fetch(working_copy)
              IN /\ git_ops' = git_ops \o [k \in 1..Len(cmds) |-> GitOp(cmds[k], None, ok)]
                 /\ IF ~ok
                    THEN /\ rpc' = "failed"
                         /\ rerr' = Error("SupplyError", cmds[1], << >>)
                         /\ UNCHANGED <<working_copy, remote_branches,
                                        local_branches, current>>
                    ELSE /\ rpc' = "ready"
                         /\ rerr' = NoError
                         /\ working_copy' = TRUE
                         /\ IF ~working_copy
                            THEN \* the clone is on the remote's default branch
                                 /\ \E d \in {None} \cup {Some(b) : b \in remote_branches} :
                                      /\ current' = d
                                      /\ local_branches' = {d[k] : k \in 1..Len(d)}
                                 /\ UNCHANGED remote_branches
                            ELSE \* the fetch brings the remote's new branches
                                 /\ \E newer \in SUBSET Versions :
                                      remote_branches' = remote_branches \cup newer
                                 /\ UNCHANGED <<local_branches, current>>
       ELSE /\ IF ~working_copy
               THEN /\ rpc' = "failed"
                    /\ rerr' = Error("SystemSetupError",
                                     "must be a git repository. Please run: git init", << >>)
               ELSE /\ rpc' = "ready"
                    /\ rerr' = NoError
            /\ UNCHANGED <<working_copy, remote_branches, local_branches,
                           current, git_ops>>
    /\ UNCHANGED <<remote, fetch, distribution_version, messages, updates, resolved>>
    /\ UNCHANGED stagerVars
    /\ UNCHANGED parserVars
    /\ UNCHANGED pluginVars

(* TrackRepository.track_file (lines 206-208) and track_names (199-201):   *)
(* _update, then the path under the working copy as it now is              *)
track_file ==
    /\ rpc \in {"ready", "updated"}
    /\ updates < MaxUpdates
    /\ \E g \in GitOutcomes :
         LET r == _update(remote, offline, remote_branches, local_branches,
                          current, distribution_version, g)
         IN /\ current' = r.current
            /\ local_branches' = r.local_branches
            /\ git_ops' = git_ops \o r.ops
            /\ messages' = messages \o r.messages
            /\ rerr' = r.err
            /\ rpc' = IF r.err = NoError THEN "updated" ELSE "failed"
            /\ resolved' = IF r.err = NoError
                           THEN Some([file |-> "track.json", branch |-> r.current])
                           ELSE None
    /\ updates' = updates + 1
    /\ UNCHANGED <<remote, fetch, working_copy, remote_branches, distribution_version>>
    /\ UNCHANGED stagerVars
    /\ UNCHANGED parserVars
    /\ UNCHANGED pluginVars

RepoNext ==
    \/ TrackRepository_init
    \/ track_file

SpecRepo == RepoInit /\ [][RepoNext]_vars

-----------------------------------------------------------------------------
(* load_track_plugins and TrackPluginReader.                               *)

RunnerNames == {"r1", "r2"}

(* what the source file of a plugin does: whether loader.exec_module       *)
(* returns, whether the module has a register(), which runners register()  *)
(* hands to register_runner, in order, and whether it then raises          *)
PluginModules ==
    [executes : BOOLEAN, has_register : BOOLEAN, register_raises : BOOLEAN,
     runners : UNION {[1..n -> RunnerNames] : n \in 0..MaxRegistrations}]

(* TrackPluginReader.__call__, lines 307-312, and register_runner, lines   *)
(* 317-318: how often register() was called, the registry afterwards and   *)
(* the exception raised                                                    *)
TrackPluginReader_call(module, registry) ==
    IF ~module.executes
    THEN [registered |-> 0, registry |-> registry,
          err |-> Error("PluginError", "exec_module", << >>)]
    ELSE IF ~module.has_register
    THEN [registered |-> 0, registry |-> registry,
          err |-> Error("AttributeError", "register", << >>)]
    ELSE [registered |-> 1, registry |-> registry \o module.runners,
          err |-> IF module.register_raises
                  THEN Error("PluginError", "register", << >>)
                  ELSE NoError]

(* load_track_plugins is called, lines 77-81: the repository is about to   *)
(* be constructed with fetch=False                                         *)
PluginInit ==
    /\ remote \in BOOLEAN
    /\ offline \in BOOLEAN
    /\ fetch = FALSE
    /\ working_copy \in BOOLEAN
    /\ remote_branches \in SUBSET Versions
    /\ ~remote => remote_branches = {}
    /\ local_branches \in SUBSET Versions
    /\ ~working_copy => local_branches = {}
    /\ current \in {None} \cup {Some(b) : b \in local_branches}
    /\ distribution_version \in Versions
    /\ git_ops = << >>
    /\ messages = << >>
    /\ rpc = "new"
    /\ rerr = NoError
    /\ updates = 0
    /\ resolved = None
    /\ plugin_exists \in BOOLEAN
    /\ ppc = "called"
    /\ track_plugin_file = None
    /\ registered = 0
    /\ runner_registry = << >>
    /\ plugin_err = NoError
    /\ plugin_log = << >>
    /\ track = << >>
    /\ fs = [p \in Paths |-> None]
    /\ pc = "idle"
    /\ idx = 1
    /\ err = NoError
    /\ trace = << >>
    /\ run = 1
    /\ startFs = fs
    /\ prev = [ok |-> FALSE, worked |-> FALSE]
    /\ ParserIdle

plugin_file_update ==
    /\ ppc = "called"
    /\ rpc = "ready"
    /\ \E g \in GitOutcomes :
         LET r == _update(remote, offline, remote_branches, local_branches,
                          current, distribution_version, g)
         IN /\ current' = r.current
            /\ local_branches' = r.local_branches
            /\ git_ops' = git_ops \o r.ops
            /\ messages' = messages \o r.messages
            /\ rerr' = r.err
            /\ rpc' = IF r.err = NoError THEN "updated" ELSE "failed"
            /\ track_plugin_file' = IF r.err = NoError THEN Some("track.py") ELSE None
            /\ ppc' = IF r.err = NoError THEN "resolved" ELSE "failed"
    /\ UNCHANGED <<remote, fetch, working_copy, remote_branches, distribution_version,
                   updates, resolved>>
    /\ UNCHANGED <<plugin_exists, registered, runner_registry, plugin_err, plugin_log>>
    /\ UNCHANGED stagerVars
    /\ UNCHANGED parserVars

(* TrackRepository.plugin_file, lines 210-213 (line 83): the path under    *)
(* the working copy as it is; the call of _update is commented out         *)
plugin_file ==
    /\ ppc = "called"
    /\ rpc = "ready"
    /\ track_plugin_file' = Some("track.py")
    /\ ppc' = "resolved"
    /\ UNCHANGED <<plugin_exists, registered, runner_registry, plugin_err, plugin_log>>
    /\ UNCHANGED repoVars
    /\ UNCHANGED stagerVars
    /\ UNCHANGED parserVars

(* lines 84-89: the plugin file is read when it exists, else skipped       *)
load_track_plugins ==
    /\ ppc = "resolved"
    /\ IF plugin_exists
       THEN \E module \in PluginModules :
              LET r == TrackPluginReader_call(module, runner_registry)
              IN /\ plugin_log' = Append(plugin_log, "Reading track plugin file.")
                 /\ registered' = registered + r.registered
                 /\ runner_registry' = r.registry
                 /\ plugin_err' = r.err
                 /\ ppc' = IF r.err = NoError THEN "done" ELSE "failed"
       ELSE /\ plugin_log' = Append(plugin_log, "Skipping plugin detection for this track.")
            /\ ppc' = "done"
            /\ UNCHANGED <<registered, runner_registry, plugin_err>>
    /\ UNCHANGED <<plugin_exists, track_plugin_file>>
    /\ UNCHANGED repoVars
    /\ UNCHANGED stagerVars
    /\ UNCHANGED parserVars

PluginNext ==
    \/ TrackRepository_init
    \/ plugin_file
    \/ load_track_plugins

SpecPlugins == PluginInit /\ [][PluginNext]_vars

-----------------------------------------------------------------------------
(* Vocabulary of the repository claims *)

(* a call of _update is taking place *)
Updating == rpc \in {"ready", "updated"} /\ updates' = updates + 1
Constructing == rpc = "new" /\ rpc' # "new"

(* the git operations and the warnings the step adds *)
NewOps == SubSeq(git_ops', Len(git_ops) + 1, Len(git_ops'))
NewMessages == SubSeq(messages', Len(messages) + 1, Len(messages'))

Ops(seq, names) == {k \in 1..Len(seq) : seq[k].op \in names}
Logged(seq, msg) == \E k \in 1..Len(seq) : seq[k] = msg

RemoteMatch == best_match(remote_branches, distribution_version)
LocalMatch == best_match(local_branches, distribution_version)

FallbackNotice ==
    "Could not find track data remotely. Trying to find track data locally."
RebaseWarning == "Local changes prevent track update from remote."

(* C12 (as claimed): with a remote and online, when no remote branch       *)
(* matches the version and a local branch does, _update logs the fallback  *)
(* notice, checks out the matching local branch, attempts no rebase and    *)
(* raises no error.                                                        *)
C12_LocalFallbackSucceeds ==
    [][(Updating /\ remote /\ ~offline /\ RemoteMatch = None /\ LocalMatch # None)
         => /\ Logged(NewMessages, FallbackNotice)
            /\ \E k \in 1..Len(NewOps) : NewOps[k] = GitOp("checkout", LocalMatch, TRUE)
            /\ current' = LocalMatch
            /\ Ops(NewOps, {"rebase"}) = {}
            /\ rerr' = NoError
            /\ rpc' = "updated"]_vars

(* C12 (amended): in that case _update logs the fallback notice, attempts  *)
(* the checkout of the matching local branch and nothing else that changes *)
(* the working copy, and attempts no rebase; when the checkout returns no  *)
(* error is raised and the working copy is on that branch, and when the    *)
(* checkout raises a SupplyError, _update raises a DataError.              *)
C12_LocalFallback ==
    [][(Updating /\ remote /\ ~offline /\ RemoteMatch = None /\ LocalMatch # None)
         => /\ Logged(NewMessages, FallbackNotice)
            /\ Len(NewOps) = 3
            /\ NewOps[1].op = "branches_remote"
            /\ NewOps[2].op = "branches_local"
            /\ NewOps[3].op = "checkout" /\ NewOps[3].branch = LocalMatch
            /\ Ops(NewOps, {"rebase"}) = {}
            /\ IF NewOps[3].ok
               THEN rerr' = NoError /\ rpc' = "updated" /\ current' = LocalMatch
               ELSE rerr'.type = "DataError" /\ rpc' = "failed" /\ current' = current]_vars

C12_Witness ==
    /\ rpc = "updated" /\ remote /\ ~offline
    /\ RemoteMatch = None /\ remote_branches # {}
    /\ Logged(messages, FallbackNotice)
    /\ current = LocalMatch /\ current # None
    /\ Ops(git_ops, {"rebase"}) = {}

(* C13: when the branch matched remotely has been checked out and          *)
(* git.rebase raises a SupplyError, _update warns and returns: nothing     *)
(* follows the rebase, the local branches are not listed, there is the one *)
(* checkout only, and track_file returns the path under the working copy   *)
(* as it is, on the branch that was checked out.                           *)
C13_RebaseFailureIsWarning ==
    [][(Updating /\ \E k \in 1..Len(NewOps) : NewOps[k].op = "rebase" /\ ~NewOps[k].ok)
         => /\ rerr' = NoError
            /\ rpc' = "updated"
            /\ Logged(NewMessages, RebaseWarning)
            /\ NewOps[Len(NewOps)].op = "rebase"
            /\ Ops(NewOps, {"branches_local"}) = {}
            /\ Cardinality(Ops(NewOps, {"checkout"})) = 1
            /\ NewOps[Len(NewOps) - 1] = GitOp("checkout", RemoteMatch, TRUE)
            /\ current' = RemoteMatch
            /\ resolved' = Some([file |-> "track.json", branch |-> current'])]_vars

C13_Witness ==
    /\ rpc = "updated" /\ updates = 1
    /\ git_ops[Len(git_ops)].op = "rebase" /\ ~git_ops[Len(git_ops)].ok
    /\ Logged(messages, RebaseWarning)
    /\ resolved # None /\ resolved[1].branch = RemoteMatch

(* C14: offline or without a remote URL, the constructor performs no clone *)
(* and no fetch and, when there is no working copy, raises the             *)
(* SystemSetupError that tells to run git init; and _update lists the      *)
(* local branches only, never the remote ones, and never rebases.          *)
C14_OfflineOrLocalOnly ==
    (offline \/ ~remote) =>
        /\ Ops(git_ops, {"clone", "fetch", "branches_remote", "rebase"}) = {}
        /\ (~working_copy /\ rpc # "new") =>
             /\ rpc = "failed"
             /\ rerr = Error("SystemSetupError",
                             "must be a git repository. Please run: git init", << >>)
             /\ git_ops = << >>
        /\ updates > 0 =>
             /\ working_copy
             /\ Cardinality(Ops(git_ops, {"branches_local"})) = updates

C14_Witness ==
    /\ offline /\ remote /\ rpc = "updated"
    /\ RemoteMatch # None /\ RemoteMatch # LocalMatch
    /\ current = LocalMatch

(* C15: when no remote branch (where the remote branches are consulted)    *)
(* and no local branch matches the version, _update raises the             *)
(* SystemSetupError, performs no checkout and no rebase, and the working   *)
(* copy stays on the branch it was on.                                     *)
C15_NoMatchIsFatal ==
    [][(Updating /\ ((remote /\ ~offline) => RemoteMatch = None) /\ LocalMatch = None)
         => /\ rpc' = "failed"
            /\ rerr' = Error("SystemSetupError",
                            "Cannot find track data for distribution version", << >>)
            /\ Ops(NewOps, {"checkout", "rebase", "clone", "fetch"}) = {}
            /\ current' = current
            /\ local_branches' = local_branches
            /\ resolved' = None]_vars

C15_Witness ==
    /\ rpc = "failed" /\ updates = 1 /\ remote /\ ~offline
    /\ rerr.msg = "Cannot find track data for distribution version"
    /\ remote_branches # {} /\ local_branches # {}

(* C16: with a remote, online and fetch requested, the constructor clones  *)
(* exactly when there is no working copy and fetches otherwise, never      *)
(* both; _update then checks out the branch matched remotely and attempts  *)
(* the rebase on it right after; no checkout comes before the clone or     *)
(* fetch and no rebase before its checkout.                                *)
C16_OrderOfGitOperations ==
    /\ []((remote /\ ~offline /\ fetch) =>
            /\ rpc # "new" => Len(git_ops) >= 1 /\ git_ops[1].op \in {"clone", "fetch"}
            /\ Ops(git_ops, {"clone", "fetch"}) \subseteq {1}
            /\ \A k \in Ops(git_ops, {"rebase"}) :
                 k > 1 /\ git_ops[k - 1] = GitOp("checkout", git_ops[k].branch, TRUE)
            /\ \A k \in Ops(git_ops, {"checkout"}) :
                 \E j \in 1..(k - 1) : git_ops[j].op \in {"clone", "fetch"} /\ git_ops[j].ok)
    /\ [][(remote /\ ~offline /\ fetch) =>
            /\ Constructing =>
                 /\ Len(NewOps) = 1
                 /\ NewOps[1].op = (IF working_copy THEN "fetch" ELSE "clone")
            /\ (Updating /\ RemoteMatch # None) =>
                 /\ NewOps[1].op = "branches_remote"
                 /\ NewOps[2].op = "checkout" /\ NewOps[2].branch = RemoteMatch
                 /\ IF NewOps[2].ok
                    THEN Len(NewOps) = 3 /\ NewOps[3].op = "rebase"
                         /\ NewOps[3].branch = RemoteMatch
                    ELSE Len(NewOps) = 2]_vars

C16_Witness ==
    /\ remote /\ ~offline /\ fetch
    /\ Len(git_ops) = 4
    /\ git_ops[1] = GitOp("clone", None, TRUE)
    /\ git_ops[3].op = "checkout" /\ git_ops[3].ok
    /\ git_ops[4].op = "rebase"

-----------------------------------------------------------------------------
(* Claims about the reader: sizes, order of the steps, missing fields *)

TypesOf(t) ==
    UNION {{t.indices[i].types[k] : k \in 1..Len(t.indices[i].types)} :
           i \in 1..Len(t.indices)}

(* C17: every type of a track the reader returns that has a document       *)
(* archive has its compressed and its uncompressed size.                   *)
C17_ArchiveHasSizes ==
    result # None =>
        \A type \in TypesOf(result[1]) :
            type.document_archive # None =>
                /\ type.compressed_size_in_bytes # None
                /\ type.uncompressed_size_in_bytes # None

ReadOrder == <<"render", "decode", "validate", "parse">>
FirstFailed == {k \in 1..Len(steps) : ~steps[k].ok}
ParserUntouched ==
    /\ indices = << >> /\ ops = << >> /\ challenges = << >> /\ schedule = << >>
    /\ challenge = None /\ parallel = None /\ missing = None

(* C18: TrackFileReader.read renders, decodes, validates and calls the     *)
(* reader in this order and each once; the reader is called only after the *)
(* three steps before it succeeded; when one of them fails it is the last  *)
(* step, a TrackSyntaxError is raised, no track is returned and the reader *)
(* has not run.                                                            *)
C18_ReadOrder ==
    /\ Len(steps) <= Len(ReadOrder)
    /\ \A k \in 1..Len(steps) : steps[k].step = ReadOrder[k]
    /\ \A k \in 1..Len(steps) :
         steps[k].step = "parse" => \A j \in 1..(k - 1) : steps[j].ok
    /\ \A k \in FirstFailed :
         /\ k = Len(steps) /\ k <= 3
         /\ pstate = "failed"
         /\ perr.type = "TrackSyntaxError"
         /\ result = None
         /\ ParserUntouched
    /\ (pstate \notin {"render", "decode", "validate", "call", "failed"} \/ result # None)
         => Len(steps) = 4

C18_Witness ==
    /\ pstate = "failed" /\ Len(steps) = 3 /\ ~steps[3].ok
    /\ steps[1].ok /\ steps[2].ok
    /\ perr.msg = "Track is invalid. Error details"

(* C19: a mandatory lookup of _r that finds nothing ends parsing with a    *)
(* TrackSyntaxError that names the path looked up and, when the lookup is  *)
(* made in a named challenge or operation, the name of that challenge or   *)
(* operation; an optional lookup that finds nothing gives the default.     *)
C19_MissingFieldAttributed ==
    /\ missing # None =>
         /\ pstate = "failed"
         /\ result = None
         /\ perr.type = "TrackSyntaxError"
         /\ perr.cites[1] = missing[1].path
         /\ missing[1].entity # None =>
              /\ Len(perr.cites) = 2
              /\ perr.cites[2] = missing[1].entity
    /\ TopLevelParsed =>
         /\ "iterations" \notin DOMAIN task_spec[1] => LastEntry.iterations = Some(1)
         /\ "warmup-iterations" \notin DOMAIN task_spec[1] =>
              LastEntry.warmup_iterations = Some(0)
         /\ LastEntry.clients = Some(1)
         /\ LastEntry.warmup_time_period = None
         /\ LastEntry.target_throughput = None

(* C19, the part the code keeps: the exception names the path, and names   *)
(* the challenge for the description and the schedule of a challenge       *)
C19_PathNamed ==
    /\ missing # None =>
         /\ pstate = "failed"
         /\ result = None
         /\ perr.type = "TrackSyntaxError"
         /\ perr.cites[1] = missing[1].path
         /\ missing[1].path \in {<<"description">>, <<"schedule">>} =>
              /\ Len(perr.cites) = 2
              /\ perr.cites[2] = missing[1].entity

-----------------------------------------------------------------------------
(* C20: in a run of prepare_track net.download and io.decompress are each  *)
(* called at most once for a type; a run that raised an exception is over: *)
(* it has executed no step of a later type and none of the failing type    *)
(* after the step that failed, and it executes none afterwards.            *)
C20_NoRetryFailStop ==
    /\ [](/\ \A i \in 1..Len(track) :
               Count("net.download", i) <= 1 /\ Count("io.decompress", i) <= 1
          /\ err # NoError => pc = "failed"
          /\ pc = "failed" =>
               /\ err.type \in {"SystemSetupError", "DataError", "TypeError"}
               /\ \A k \in 1..Len(trace) : trace[k].idx <= idx
               /\ trace[Len(trace)].idx = idx
               /\ ~Has("offset_table", idx)
               /\ err.msg \in {"disable offline mode", "verify url and connection",
                               "Downloaded", "bytes_to_mb", "%d format"}
                    => ~Has("decompress.precheck", idx))
    /\ [][pc = "failed" =>
            \/ (trace' = trace /\ fs' = fs /\ pc' = "failed" /\ err' = err)
            \/ (run' = run + 1 /\ trace' = << >> /\ fs' = fs)]_vars

C20_Witness ==
    /\ pc = "failed" /\ err.type = "DataError" /\ err.msg = "Downloaded"
    /\ Len(track) = 2 /\ idx = 1 /\ HasArchive(2)
    /\ Count("net.download", 1) = 1

(* no two types name the same archive                                      *)
DistinctArchives ==
    \A i, j \in ArchiveTypes : i # j => Archive(i) # Archive(j)

(* a download of the run raised URLError                                   *)
DownloadFailed == \E i \in 1..Len(track) : Has("URLError", i)

-----------------------------------------------------------------------------
(* Vocabulary of the plugin loader claim *)

(* load_track_plugins has returned or was left by an exception             *)
PluginsReturned == ppc = "done"
PluginsRaised == rpc = "failed" \/ ppc = "failed"

(* no git operation that changes the working copy is performed, the        *)
(* working copy stays on its branch, and register() is called at most      *)
(* once and only when the plugin file exists                               *)
WorkingCopyUntouched ==
    /\ [](/\ Ops(git_ops, {"clone", "fetch", "checkout", "rebase"}) = {}
          /\ registered <= 1
          /\ registered > 0 => plugin_exists)
    /\ [][UNCHANGED <<working_copy, current, local_branches, remote_branches>>]_vars

NothingRegistered == registered = 0 /\ runner_registry = << >>

(* C22 (as claimed): load_track_plugins performs no clone, fetch, checkout *)
(* or rebase and leaves the working copy as it is; it calls the plugin's   *)
(* register() at most once and only if the plugin file exists; when the    *)
(* file is absent nothing is registered and no error is raised.            *)
C22_Original ==
    /\ WorkingCopyUntouched
    /\ [](~plugin_exists => (NothingRegistered /\ ~PluginsRaised))

(* C22 (amended): load_track_plugins performs no clone, fetch, checkout or *)
(* rebase and leaves the working copy as it is; it calls the plugin's      *)
(* register() at most once and only if the plugin file exists; when the    *)
(* file is absent nothing is registered, and no error is raised unless the *)
(* repository directory is not a git working copy, which is a              *)
(* SystemSetupError of the constructor.                                    *)
C22_PluginsFrame ==
    /\ WorkingCopyUntouched
    /\ [](~plugin_exists =>
            /\ NothingRegistered
            /\ ppc # "failed" /\ plugin_err = NoError
            /\ rpc = "failed" <=> (rpc # "new" /\ ~working_copy)
            /\ rpc = "failed" => rerr.type = "SystemSetupError")

C22_Witness ==
    /\ PluginsReturned
    /\ remote /\ ~offline /\ current # None
    /\ RemoteMatch # None /\ RemoteMatch # current
    /\ plugin_exists /\ registered = 1 /\ Len(runner_registry) = 2
    /\ git_ops = << >>

====
